---- MODULE Spec2Model ----
(***************************************************************************)
(* Model of dspy/teleprompt/finetune_teleprompter.py and                   *)
(* dspy/adapters/base.py: teacher preparation, the thread-pool bootstrap   *)
(* executor, the round sampling controller.                                *)
(*                                                                         *)
(* Python values: None is the string "None"; a list that is shared by      *)
(* reference (a trace) is an id into the variable traces; a dict is a      *)
(* record, an optional key being a field that is in its DOMAIN or not.     *)
(* example_ind is 0-based as enumerate() makes it; dataset[i + 1] is the   *)
(* example at position i.                                                   *)
(***************************************************************************)
EXTENDS Integers, Sequences, FiniteSets, TLC

\* ------------------------------------------------------------------ bounds
\* longest dataset handed to the pool
MaxK == 3
\* largest max_errors argument
MaxErrors == 1

\* ------------------------------------------------------- program constants
\* process_dataset_threaded: num_threads = max_workers if max_workers else 10
DefaultWorkers == 10

\* the max_workers arguments tried (0 is None) and the num_threads arguments
WorkerArguments == {0, 1, 2}
ThreadArguments == {1, 2}

None == "None"

\* What a future holds once its task is over: the None process_example
\* returns for a program that raised, the data_dict, or the exception that
\* escaped process_example.
ReturnedNone == [kind |-> "None"]
ReturnedDict(data_dict) == [kind |-> "dict", dict |-> data_dict]
Escaped == [kind |-> "Exception"]

\* the examples a dataset is made of, in the order the caller lists them
Examples == <<"a", "b", "c", "d", "e">>

\* The caller's program: the predictors its forward() invokes for an example,
\* in call order.  Predictors are declared p1, p2; for the example "b" the
\* program calls them in the other order, so call order differs from
\* declaration order.
Forward(example) ==
    IF example = "b" THEN <<"p2", "p1">> ELSE <<"p1", "p2">>

\* One trace entry (pred, inputs, outputs) appended by a predictor invocation.
Observation(pred, example) ==
    [pred |-> pred, inputs |-> example, outputs |-> <<pred, example>>]

\* The prediction the program returns for an example.
Prediction(example) == [answer |-> example]

\* The score the metric gives.
Score(example, prediction, trace) == IF prediction.answer = example THEN 1 ELSE 0

VARIABLES
    pc,          \* where the caller is: "idle", "pool", "shutdown", "returned", "raised"
    entry,       \* the function the caller invoked
    dataset,     \* the dataset argument
    metric,      \* TRUE iff a metric was supplied
    max_workers, \* max_workers / num_threads argument, 0 for None
    max_errors,  \* max_errors argument
    futures,     \* example_ind -> the state of its future
    traces,      \* list id -> the trace list; id 0 is the ambient settings.trace
    data,        \* the list process_dataset_threaded appends to
    result,      \* the list returned to the caller (pc = "returned")
    raised,      \* example_inds whose program execution raised (history)
    settings_lm, \* dspy.settings.lm, the process-wide default LM, or NoLM
    heap,        \* predictor object id -> its lm binding and demos
    heap0,       \* heap as it was when prepare_teacher was called (history)
    student,     \* the caller's student program
    teacher,     \* the caller's teacher argument, NoProgram for None
    pt,          \* the outcome of prepare_teacher
    program_arg, \* the program argument of the bootstrap call
    program,     \* the program the pool executes
    context_lm,  \* the lm of dspy.context(lm=...) around bootstrap_data
    sampling,    \* sampling_round, sampling_temperature, ..._delta arguments
    served,      \* the LM that served each predictor invocation (history)
    conv_args,   \* the arguments of a message-data conversion call
    conv,        \* the outcome of that call
    adapter_args,   \* the arguments of an Adapter.__call__
    adapter_out,    \* the outcome of that call
    adapter_failed, \* example_inds whose adapter call raised (history)
    completed,   \* number of finished bootstrap_data_for_round calls
    original     \* the caller's heap before any call (history)

vars == <<pc, entry, dataset, metric, max_workers, max_errors, futures,
          traces, data, result, raised, settings_lm, heap, heap0, student,
          teacher, pt, program_arg, program, context_lm, sampling, served,
          conv_args, conv, adapter_args, adapter_out, adapter_failed,
          completed, original>>

roundVars == <<program_arg, program, context_lm, sampling>>
libVars == <<conv_args, conv, adapter_args, adapter_out, adapter_failed,
             completed, original>>

callVars == <<entry, dataset, metric, max_workers, max_errors>>
teacherVars == <<settings_lm, heap, heap0, student, teacher, pt>>

Inds == 0 .. (Len(dataset) - 1)

NumThreads == IF max_workers # 0 THEN max_workers ELSE DefaultWorkers

Running == {i \in Inds : futures[i].state = "running"}
Queued == {i \in Inds : futures[i].state = "queued"}
Finished == {i \in Inds : futures[i].state = "finished"}

\* ----------------------------------------------------------------- helpers
Range(s) == {s[n] : n \in 1 .. Len(s)}

RECURSIVE InsertByInd(_, _)
\* insert a record behind every record whose example_ind is not larger
InsertByInd(sorted, d) ==
    IF sorted = <<>> THEN <<d>>
    ELSE IF Head(sorted).example_ind <= d.example_ind
         THEN <<Head(sorted)>> \o InsertByInd(Tail(sorted), d)
         ELSE <<d>> \o sorted

RECURSIVE SortedFrom(_, _)
SortedFrom(acc, rest) ==
    IF rest = <<>> THEN acc
    ELSE SortedFrom(InsertByInd(acc, Head(rest)), Tail(rest))

\* mutant: the sort is left out
SortByExampleIndNoSort(d) == d

\* data.sort(key=lambda x: x['example_ind'])  (stable)
SortByExampleInd(d) == SortedFrom(<<>>, d)

\* mutant: example_ind counted from 1
DataDictFromOne(example, example_ind, prediction, trace, hasMetric, score) ==
    LET base == [example |-> example, prediction |-> prediction,
                 trace |-> trace, example_ind |-> example_ind + 1]
    IN IF hasMetric THEN base @@ [score |-> score] ELSE base

\* process_example: the data_dict built after the with block
DataDict(example, example_ind, prediction, trace, hasMetric, score) ==
    LET base == [example |-> example, prediction |-> prediction,
                 trace |-> trace, example_ind |-> example_ind]
    IN IF hasMetric THEN base @@ [score |-> score] ELSE base

\* mutant: no context of its own, the task reads the ambient settings.trace
TaskTraceListAmbient(example_ind) == 0

\* process_example: `with dspy.context(trace=[])` gives the task a new list of
\* its own; the id of that list
TaskTraceList(example_ind) == example_ind + 1

\* dspy.settings.trace as the thread running the task of example_ind sees it:
\* the list of the context that task entered, which no other task sees
SettingsTrace(example_ind) == futures[example_ind].list

\* Evaluate (the warm-up pass): fails when more than max_errors of its
\* executions raise
EvaluateRaises(errors, budget) == errors > budget

\* process_dataset_threaded: if data_dict is not None: data.append(data_dict)
AppendResult(d, value) ==
    IF value # ReturnedNone THEN Append(d, value.dict) ELSE d

\* ------------------------------------------------------ programs and LMs
\* An LM is its model name and its temperature in thousandths; NoLM is the
\* None of an unbound predictor or of an unset dspy.settings.lm.
NoLM == [model |-> "None", temperature |-> 0]
LM(model, temperature) == [model |-> model, temperature |-> temperature]

\* A program is an object id and its named predictors in declaration order,
\* each a name and the id of the predictor object; NoProgram is None.
NoProgram == [id |-> 0, preds |-> <<>>]
PredictorNames(prog) == [n \in 1 .. Len(prog.preds) |-> prog.preds[n].name]
PredictorObjects(prog) == {prog.preds[n].obj : n \in 1 .. Len(prog.preds)}

MaxOf(S) == CHOOSE x \in S : \A y \in S : y <= x

\* Program.deepcopy: a new program object over new predictor objects that
\* carry copies of the demos and LM bindings; nothing of the original is
\* shared or changed.
deepcopy(prog, h, usedProgIds) ==
    LET base == MaxOf(DOMAIN h)
        copy == [n \in 1 .. Len(prog.preds) |->
                    [name |-> prog.preds[n].name, obj |-> base + n]]
        fresh == [o \in (base + 1) .. (base + Len(prog.preds)) |->
                    h[prog.preds[o - base].obj]]
    IN [prog |-> [id |-> MaxOf(usedProgIds) + 1, preds |-> copy],
        heap |-> h @@ fresh]

\* Program._assert_structural_equivalency: the same predictor names in the
\* same order
StructurallyEquivalent(a, b) == PredictorNames(a) = PredictorNames(b)

\* Program._assert_no_shared_predictor: no predictor object of one program is
\* a predictor object of the other
NoSharedPredictor(a, b) == PredictorObjects(a) \cap PredictorObjects(b) = {}

\* Program._assert_lm_consistency: a default LM is configured and no predictor
\* overrides it, or every predictor has an LM bound
LMConsistent(prog, h, lm) ==
    \/ lm # NoLM /\ \A o \in PredictorObjects(prog) : h[o].lm = NoLM
    \/ \A o \in PredictorObjects(prog) : h[o].lm # NoLM

\* Program._set_all_predictor_lms(lm)
SetAllPredictorLMs(prog, h, lm) ==
    [o \in DOMAIN h |->
        IF o \in PredictorObjects(prog) THEN [h[o] EXCEPT !.lm = lm] ELSE h[o]]

\* mutant: the student itself is used when no teacher is given
CopyTeacherAliasStudent(st, te, h) ==
    IF te = NoProgram THEN [prog |-> st, heap |-> h]
    ELSE deepcopy(te, h, {st.id, te.id})

\* mutant: the caller's teacher is used directly
CopyTeacherAliasGiven(st, te, h) ==
    IF te = NoProgram THEN deepcopy(st, h, {st.id, te.id})
    ELSE [prog |-> te, heap |-> h]

\* prepare_teacher: teacher = student.deepcopy() if teacher is None else
\* teacher.deepcopy()
CopyTeacher(st, te, h) ==
    IF te = NoProgram THEN deepcopy(st, h, {st.id, te.id})
    ELSE deepcopy(te, h, {st.id, te.id})

\* mutant: the default LM is never pushed
PushDefaultLMNever(prog, h, lm) == h

\* prepare_teacher: if dspy.settings.lm: teacher._set_all_predictor_lms(...)
PushDefaultLM(prog, h, lm) ==
    IF lm # NoLM THEN SetAllPredictorLMs(prog, h, lm) ELSE h

\* the outcome of a prepare_teacher call: returned or raised, the local
\* teacher, the heap it leaves, and the steps it went through
Outcome(status, prog, h, log) ==
    [status |-> status, teacher |-> prog, heap |-> h, log |-> log]

\* mutant: the LM consistency check comes before the structural check
prepare_teacher_lm_first(st, te, h, lm) ==
    LET c == CopyTeacher(st, te, h)
    IN IF ~LMConsistent(c.prog, c.heap, lm)
       THEN Outcome("raised", c.prog, c.heap, <<"deepcopy", "lm_consistency">>)
       ELSE IF ~StructurallyEquivalent(st, c.prog)
       THEN Outcome("raised", c.prog, c.heap,
                    <<"deepcopy", "lm_consistency", "structural_equivalency">>)
       ELSE IF ~NoSharedPredictor(st, c.prog)
       THEN Outcome("raised", c.prog, c.heap,
                    <<"deepcopy", "lm_consistency", "structural_equivalency",
                      "no_shared_predictor">>)
       ELSE Outcome("returned", c.prog, PushDefaultLM(c.prog, c.heap, lm),
                    <<"deepcopy", "lm_consistency", "structural_equivalency",
                      "no_shared_predictor", "set_all_predictor_lms">>)

\* prepare_teacher without teacher._assert_lm_consistency()
prepare_teacher_no_lm_check(st, te, h, lm) ==
    LET c == CopyTeacher(st, te, h)
    IN IF ~StructurallyEquivalent(st, c.prog)
       THEN Outcome("raised", c.prog, c.heap,
                    <<"deepcopy", "structural_equivalency">>)
       ELSE IF ~NoSharedPredictor(st, c.prog)
       THEN Outcome("raised", c.prog, c.heap,
                    <<"deepcopy", "structural_equivalency",
                      "no_shared_predictor">>)
       ELSE Outcome("returned", c.prog, PushDefaultLM(c.prog, c.heap, lm),
                    <<"deepcopy", "structural_equivalency",
                      "no_shared_predictor", "set_all_predictor_lms">>)

\* prepare_teacher(student, teacher)
prepare_teacher(st, te, h, lm) ==
    LET c == CopyTeacher(st, te, h)
    IN IF ~StructurallyEquivalent(st, c.prog)
       THEN Outcome("raised", c.prog, c.heap,
                    <<"deepcopy", "structural_equivalency">>)
       ELSE IF ~NoSharedPredictor(st, c.prog)
       THEN Outcome("raised", c.prog, c.heap,
                    <<"deepcopy", "structural_equivalency",
                      "no_shared_predictor">>)
       ELSE IF ~LMConsistent(c.prog, c.heap, lm)
       THEN Outcome("raised", c.prog, c.heap,
                    <<"deepcopy", "structural_equivalency",
                      "no_shared_predictor", "lm_consistency">>)
       ELSE Outcome("returned", c.prog, PushDefaultLM(c.prog, c.heap, lm),
                    <<"deepcopy", "structural_equivalency",
                      "no_shared_predictor", "lm_consistency",
                      "set_all_predictor_lms">>)

\* ---------------------------------------------------- the caller's objects
\* the LMs the caller binds or configures
GlobalLMs == {NoLM, LM("a", 0), LM("c", 500)}
BoundLMs == {NoLM, LM("a", 0), LM("b", 700)}

\* the student: predictors p1, p2 on the objects 1, 2
StudentProgram == [id |-> 1, preds |-> <<[name |-> "p1", obj |-> 1],
                                        [name |-> "p2", obj |-> 2]>>]

\* the teachers a caller may pass: none, one of the student's shape, one with
\* fewer predictors, one with another name, one with the names in another
\* order, one that shares a predictor object with the student, and the
\* student itself
TeacherArguments ==
    { NoProgram,
      [id |-> 2, preds |-> <<[name |-> "p1", obj |-> 3], [name |-> "p2", obj |-> 4]>>],
      [id |-> 2, preds |-> <<[name |-> "p1", obj |-> 3]>>],
      [id |-> 2, preds |-> <<[name |-> "p1", obj |-> 3], [name |-> "q", obj |-> 4]>>],
      [id |-> 2, preds |-> <<[name |-> "p2", obj |-> 3], [name |-> "p1", obj |-> 4]>>],
      [id |-> 2, preds |-> <<[name |-> "p1", obj |-> 1], [name |-> "p2", obj |-> 4]>>],
      StudentProgram }

\* the predictor objects the caller made
CallerObjects == 1 .. 4

NotCalled == Outcome("none", NoProgram, <<>>, <<>>)

\* ---------------------------------------------------------- round sampling
\* largest sampling_round argument
MaxRound == 3

\* an optional argument: <<>> is None, <<v>> is the value v
Nothing == <<>>
Some(v) == <<v>>

\* the sampling_temperature and sampling_temperature_delta arguments tried,
\* in thousandths
SamplingTemperatures == {Nothing, Some(900)}
SamplingTemperatureDeltas == {-1, 1, 5}

\* mutant: the delta is added once, whatever the round
copy_model_with_updated_temp_no_round(lm, s) ==
    LET temp == IF s.temperature = Nothing THEN lm.temperature
                ELSE s.temperature[1]
    IN [lm EXCEPT !.temperature = temp + s.delta]

\* bootstrap_data_for_round.copy_model_with_updated_temp: a copy of the LM
\* with temperature base + delta * round
copy_model_with_updated_temp(lm, s) ==
    LET temp == IF s.temperature = Nothing THEN lm.temperature
                ELSE s.temperature[1]
    IN [lm EXCEPT !.temperature = temp + s.delta * s.round]

RECURSIVE UpdatePredictorLMs(_, _, _, _)
\* for pred in program.predictors(): pred.lm = copy_model_with_updated_temp(
\* pred.lm), from the n-th predictor on; a predictor without an LM raises
UpdatePredictorLMs(prog, h, n, s) ==
    IF n > Len(prog.preds) THEN [ok |-> TRUE, heap |-> h]
    ELSE LET o == prog.preds[n].obj
         IN IF h[o].lm = NoLM THEN [ok |-> FALSE, heap |-> h]
            ELSE UpdatePredictorLMs(
                    prog,
                    [h EXCEPT ![o].lm = copy_model_with_updated_temp(h[o].lm, s)],
                    n + 1, s)

\* the predictor object a program holds under a name
PredictorNamed(prog, name) ==
    (CHOOSE n \in 1 .. Len(prog.preds) : prog.preds[n].name = name)

\* The LM a predictor invocation uses: the predictor's own LM when it has one
\* bound, else the default LM in effect.
ServingLM(prog, name, h, default) ==
    LET own == h[prog.preds[PredictorNamed(prog, name)].obj].lm
    IN IF own # NoLM THEN own ELSE default

\* The default LM in effect inside the pool: the lm of the dspy.context the
\* round controller opened, else dspy.settings.lm.
ActiveDefaultLM ==
    IF entry = "bootstrap_data_for_round" THEN context_lm ELSE settings_lm

\* mutant: only the first record is stamped
StampRoundFirstOnly(d, round) ==
    [n \in 1 .. Len(d) |->
        IF n = 1
        THEN [k \in DOMAIN d[n] \cup {"round"} |->
                 IF k = "round" THEN round ELSE d[n][k]]
        ELSE d[n]]

\* for data_dict in data: data_dict["round"] = sampling_round
StampRound(d, round) ==
    [n \in 1 .. Len(d) |->
        [k \in DOMAIN d[n] \cup {"round"} |->
            IF k = "round" THEN round ELSE d[n][k]]]

NoSampling == [round |-> 0, temperature |-> Nothing, delta |-> 0]

\* no conversion and no adapter call has been made
NoConversionArguments ==
    [data |-> <<>>, keep_data_keys |-> FALSE, exclude_demos |-> FALSE,
     adapter |-> None, demos |-> <<>>]
NotConverted == [fn |-> "None", status |-> "none", out |-> <<>>, data |-> <<>>]
NoAdapterArguments ==
    [signature |-> "None", outputs |-> <<>>, parse_values |-> TRUE]
NoAdapterCall == [status |-> "none", values |-> <<>>, at |-> 0]

NoLibraryArguments ==
    /\ conv_args = NoConversionArguments
    /\ adapter_args = NoAdapterArguments

NoRound ==
    /\ program_arg = StudentProgram
    /\ program = StudentProgram
    /\ context_lm = NoLM
    /\ sampling = NoSampling
    /\ served = {}
    /\ conv = NotConverted
    /\ adapter_out = NoAdapterCall
    /\ adapter_failed = {}
    /\ completed = 0

\* -------------------------------------------------------------------- Init
\* the pool is studied with one plain configuration of the caller's objects
PlainObjects ==
    /\ settings_lm = LM("a", 0)
    /\ heap = [o \in CallerObjects |-> [lm |-> NoLM, demos |-> <<o>>]]
    /\ heap0 = heap
    /\ student = StudentProgram
    /\ teacher = NoProgram
    /\ pt = NotCalled
    /\ original = [heap |-> heap, settings_lm |-> settings_lm, student |-> student]
    /\ NoRound

Init ==
    /\ PlainObjects
    /\ NoLibraryArguments
    /\ pc = "idle"
    /\ entry = None
    /\ dataset = <<>>
    /\ metric = FALSE
    /\ max_workers = 0
    /\ max_errors = 0
    /\ futures = <<>>
    /\ traces = (0 :> <<>>)
    /\ data = <<>>
    /\ result = <<>>
    /\ raised = {}

\* ----------------------------------------------------------------- actions
\* executor.submit(process_example, example, i, program, metric) for every
\* example: all futures are queued before the first result is awaited.  (The
\* file names concurrent.futures without importing it; the name is taken to
\* resolve to the standard library module.)
SubmitAll(ds) ==
    /\ futures' = [i \in 0 .. (Len(ds) - 1) |->
                    [state |-> "queued", list |-> 0, calls |-> 0,
                     value |-> ReturnedNone]]
    /\ traces' = (0 :> <<>>)
    /\ data' = <<>>
    /\ result' = <<>>
    /\ raised' = {}
    /\ served' = {}

\* The caller calls process_dataset_threaded(dataset, program, metric,
\* max_workers, max_errors) directly.
CallProcessDatasetThreaded ==
    /\ pc = "idle"
    /\ \E k \in 0 .. MaxK, m \in BOOLEAN, w \in WorkerArguments, e \in 0 .. MaxErrors :
          /\ dataset' = SubSeq(Examples, 1, k)
          /\ metric' = m
          /\ max_workers' = w
          /\ max_errors' = e
          /\ SubmitAll(dataset')
    /\ entry' = "process_dataset_threaded"
    /\ pc' = "pool"
    /\ UNCHANGED <<teacherVars, roundVars, libVars>>

\* The caller calls bootstrap_data: the Evaluate warm-up pass runs first; it
\* fails the call when more than max_errors of its executions raise, else its
\* result is dropped and process_dataset_threaded runs with num_threads as
\* max_workers.
CallBootstrapData ==
    /\ pc = "idle"
    /\ \E k \in 0 .. MaxK, m \in BOOLEAN, w \in ThreadArguments, e \in 0 .. MaxErrors,
          warmupErrors \in 0 .. MaxK :
          /\ warmupErrors <= k
          /\ dataset' = SubSeq(Examples, 1, k)
          /\ metric' = m
          /\ max_workers' = w
          /\ max_errors' = e
          /\ SubmitAll(dataset')
          /\ pc' = IF EvaluateRaises(warmupErrors, e) THEN "raised" ELSE "pool"
    /\ entry' = "bootstrap_data"
    /\ UNCHANGED <<teacherVars, roundVars, libVars>>

\* A pool thread takes the next queued future (the work queue is FIFO) and
\* enters process_example: with dspy.context(trace=[]).
StartTask(i) ==
    /\ pc \in {"pool", "shutdown"}
    /\ i \in Queued
    /\ \A j \in Queued : i <= j
    /\ Cardinality(Running) < NumThreads
    /\ futures' = [futures EXCEPT ![i].state = "running",
                                  ![i].list = TaskTraceList(i)]
    /\ traces' = IF TaskTraceList(i) \in DOMAIN traces
                 THEN traces
                 ELSE traces @@ (TaskTraceList(i) :> <<>>)
    /\ UNCHANGED <<pc, callVars, teacherVars, roundVars, libVars, data, result, raised, served>>

\* program(**example.inputs()) invokes its next predictor, which appends its
\* observation to dspy.settings.trace as this thread sees it.
Invoke(i) ==
    /\ i \in Running
    /\ futures[i].calls < Len(Forward(dataset[i + 1]))
    /\ LET n == futures[i].calls + 1
           ex == dataset[i + 1]
           lm == ServingLM(program, Forward(ex)[n], heap, ActiveDefaultLM)
       IN /\ lm # NoLM
          /\ traces' = [traces EXCEPT ![SettingsTrace(i)] =
                           Append(@, Observation(Forward(ex)[n], ex))]
          /\ futures' = [futures EXCEPT ![i].calls = n]
          /\ served' = served \cup
                {[example_ind |-> i, pred |-> Forward(ex)[n], lm |-> lm]}
    /\ UNCHANGED <<pc, callVars, teacherVars, roundVars, libVars, data, result, raised>>

\* process_example with the exception of the program recorded as a record
TaskValueDefaulted(programRaised, metricRaises, data_dict) ==
    IF metricRaises THEN Escaped ELSE ReturnedDict(data_dict)

\* process_example with the exception of the metric caught like the program's
TaskValueMetricCaught(programRaised, metricRaises, data_dict) ==
    IF programRaised \/ metricRaises THEN ReturnedNone ELSE ReturnedDict(data_dict)

\* What process_example gives its future: None when the program raised
\* (except Exception: return None), the exception when the metric raised
\* (nothing catches it), else the data_dict.
TaskValue(programRaised, metricRaises, data_dict) ==
    IF programRaised THEN ReturnedNone
    ELSE IF metricRaises THEN Escaped
    ELSE ReturnedDict(data_dict)

\* the data_dict process_example would build for the example at position i
TaskDataDict(i) ==
    LET ex == dataset[i + 1]
        prediction == Prediction(ex)
        trace == SettingsTrace(i)
    IN DataDict(ex, i, prediction, trace, metric, Score(ex, prediction, trace))

\* program(**example.inputs()) raises: except Exception: print; return None
ProgramRaises(i) ==
    /\ i \in Running
    /\ futures' = [futures EXCEPT ![i].state = "finished",
                                  ![i].value = TaskValue(TRUE, FALSE, TaskDataDict(i))]
    /\ raised' = raised \cup {i}
    /\ UNCHANGED <<pc, callVars, teacherVars, roundVars, libVars, traces, data, result, served>>

\* The program returned: trace = dspy.settings.trace, the metric is applied
\* when there is one, and the data_dict is the task's result.  A metric that
\* raises is not caught: the exception becomes the future's result.
FinishTask(i) ==
    /\ i \in Running
    /\ futures[i].calls = Len(Forward(dataset[i + 1]))
    /\ \E metricRaises \in BOOLEAN :
          /\ metricRaises => metric
          /\ futures' = [futures EXCEPT
                ![i].state = "finished",
                ![i].value = TaskValue(FALSE, metricRaises, TaskDataDict(i))]
    /\ UNCHANGED <<pc, callVars, teacherVars, roundVars, libVars, traces, data, result, raised,
                   served>>

\* for future in as_completed(...): data_dict = future.result().  A future
\* that holds an exception re-raises it in the caller, which leaves the loop.
Collect(i) ==
    /\ pc = "pool"
    /\ i \in Finished
    /\ futures' = [futures EXCEPT ![i].state = "collected"]
    /\ IF futures[i].value = Escaped
       THEN /\ pc' = "shutdown"
            /\ data' = data
       ELSE /\ pc' = pc
            /\ data' = AppendResult(data, futures[i].value)
    /\ UNCHANGED <<callVars, teacherVars, roundVars, libVars, traces, result, raised, served>>

\* An exception left the with block: the executor's __exit__ waits for every
\* submitted task, then the exception reaches the caller.
Propagate ==
    /\ pc = "shutdown"
    /\ Running = {} /\ Queued = {}
    /\ pc' = "raised"
    /\ UNCHANGED <<callVars, teacherVars, roundVars, libVars, futures, traces, data, result,
                   raised, served>>

\* Every future was collected: the with block ends, the data is sorted and
\* returned.
ReturnData ==
    /\ pc = "pool"
    /\ \A i \in Inds : futures[i].state = "collected"
    /\ result' = IF entry = "bootstrap_data_for_round"
                 THEN StampRound(SortByExampleInd(data), sampling.round)
                 ELSE SortByExampleInd(data)
    /\ pc' = "returned"
    /\ UNCHANGED <<callVars, teacherVars, roundVars, libVars, futures, traces, data, raised,
                   served>>

Next ==
    \/ CallProcessDatasetThreaded
    \/ CallBootstrapData
    \/ \E i \in Inds : StartTask(i)
    \/ \E i \in Inds : Invoke(i)
    \/ \E i \in Inds : ProgramRaises(i)
    \/ \E i \in Inds : FinishTask(i)
    \/ \E i \in Inds : Collect(i)
    \/ Propagate
    \/ ReturnData

Spec == Init /\ [][Next]_vars

\* ------------------------------------------------------ teacher preparation
NoCall ==
    /\ pc = "idle"
    /\ entry = None
    /\ dataset = <<>>
    /\ metric = FALSE
    /\ max_workers = 0
    /\ max_errors = 0
    /\ futures = <<>>
    /\ traces = (0 :> <<>>)
    /\ data = <<>>
    /\ result = <<>>
    /\ raised = {}
    /\ NoRound

InitTeacher ==
    /\ NoCall
    /\ settings_lm \in GlobalLMs
    /\ heap \in [CallerObjects -> {[lm |-> l, demos |-> <<>>] : l \in BoundLMs}]
    /\ heap0 = heap
    /\ student = StudentProgram
    /\ teacher \in TeacherArguments
    /\ pt = NotCalled
    /\ original = [heap |-> heap, settings_lm |-> settings_lm, student |-> student]
    /\ NoLibraryArguments

\* The caller calls prepare_teacher(student, teacher).
PrepareTeacher ==
    /\ pc = "idle"
    /\ pt.status = "none"
    /\ pt' = prepare_teacher(student, teacher, heap, settings_lm)
    /\ heap' = pt'.heap
    /\ heap0' = heap
    /\ entry' = "prepare_teacher"
    /\ UNCHANGED <<pc, dataset, metric, max_workers, max_errors, futures,
                   traces, data, result, raised, settings_lm, student, teacher,
                   roundVars, libVars, served>>

NextTeacher == PrepareTeacher

SpecTeacher == InitTeacher /\ [][NextTeacher]_vars

\* ----------------------------------------------------- the round controller
\* dataset lengths, thread counts and error budgets the round controller is
\* run with
RoundDatasetLengths == {1, 2}
RoundThreads == {1}
RoundMaxErrors == {0}
\* the LM bindings of the student's predictors it is run with
RoundBoundLMs == {NoLM, LM("b", 700)}

InitRound ==
    /\ NoCall
    /\ settings_lm \in GlobalLMs
    /\ heap \in [1 .. 2 -> {[lm |-> l, demos |-> <<>>] : l \in RoundBoundLMs}]
    /\ heap0 = heap
    /\ student = StudentProgram
    /\ teacher = NoProgram
    /\ pt = NotCalled
    /\ original = [heap |-> heap, settings_lm |-> settings_lm, student |-> student]
    /\ NoLibraryArguments

\* program = program.deepcopy() without the copy: the caller's own object
CopyProgramAlias(prog, h, usedProgIds) == [prog |-> prog, heap |-> h]

\* program = program.deepcopy()
CopyProgram(prog, h, usedProgIds) == deepcopy(prog, h, usedProgIds)

\* the programs the caller can hand to the round controller: the student, or
\* the teacher prepare_teacher returned
CallerPrograms ==
    {student} \cup (IF pt.status = "returned" THEN {pt.teacher} ELSE {})

\* The caller calls bootstrap_data_for_round: the program is deep-copied and
\* the dataset copied; with a default LM the context LM is its copy at the
\* round's temperature, else every predictor's LM is replaced by such a copy;
\* then bootstrap_data runs inside dspy.context(lm=context_lm): the Evaluate
\* warm-up pass, which fails the call when more than max_errors of its
\* executions raise, and the pool.
RoundCall(lengths, metrics) ==
    /\ pc = "idle"
    /\ \E prog \in CallerPrograms, k \in lengths, m \in metrics,
          w \in RoundThreads, e \in RoundMaxErrors, r \in 0 .. MaxRound,
          t \in SamplingTemperatures, d \in SamplingTemperatureDeltas,
          warmupErrors \in 0 .. MaxK :
          LET s == [round |-> r, temperature |-> t, delta |-> d]
              c == CopyProgram(prog, heap, {student.id, teacher.id, pt.teacher.id})
              upd == IF settings_lm # NoLM
                     THEN [ok |-> TRUE, heap |-> c.heap]
                     ELSE UpdatePredictorLMs(c.prog, c.heap, 1, s)
          IN /\ warmupErrors <= k
             /\ program_arg' = prog
             /\ program' = c.prog
             /\ sampling' = s
             /\ context_lm' = IF settings_lm # NoLM
                              THEN copy_model_with_updated_temp(settings_lm, s)
                              ELSE NoLM
             /\ heap' = upd.heap
             /\ heap0' = heap
             /\ dataset' = SubSeq(Examples, 1, k)
             /\ metric' = m
             /\ max_workers' = w
             /\ max_errors' = e
             /\ SubmitAll(dataset')
             /\ pc' = IF ~upd.ok \/ EvaluateRaises(warmupErrors, e)
                      THEN "raised" ELSE "pool"
    /\ entry' = "bootstrap_data_for_round"
    /\ UNCHANGED <<settings_lm, student, teacher, pt, libVars>>

CallBootstrapDataForRound == RoundCall(RoundDatasetLengths, BOOLEAN)

NextRound ==
    \/ PrepareTeacher
    \/ CallBootstrapDataForRound
    \/ \E i \in Inds : StartTask(i)
    \/ \E i \in Inds : Invoke(i)
    \/ \E i \in Inds : ProgramRaises(i)
    \/ \E i \in Inds : FinishTask(i)
    \/ \E i \in Inds : Collect(i)
    \/ Propagate
    \/ ReturnData

SpecRound == InitRound /\ [][NextRound]_vars

\* ------------------------------------------------------- Adapter.__call__
\* most completions the LM returns for one call
MaxCompletions == 3

\* the signatures tried and their output fields
Signatures == {"qa", "cot"}
OutputFields(signature) ==
    IF signature = "qa" THEN {"answer"} ELSE {"rationale", "answer"}

\* what an LM completion looks like to parse: it supplies exactly the output
\* fields, lacks one, has one too many, or cannot be parsed at all
CompletionShapes == {"exact", "missing", "extra", "garbled"}

\* self.parse(signature, output, _parse_values): raises on a completion it
\* cannot parse, else the fields it found
Parse(signature, output, parse_values) ==
    LET keys == CASE output.shape = "exact" -> OutputFields(signature)
                  [] output.shape = "missing" -> OutputFields(signature) \ {"answer"}
                  [] output.shape = "extra" -> OutputFields(signature) \cup {"note"}
                  [] OTHER -> {}
    IN [ok |-> output.shape # "garbled",
        value |-> [k \in keys |-> <<output.id, k, parse_values>>]]

\* assert set(value.keys()) == set(signature.output_fields.keys())
KeysAssertedNever(value, signature) == TRUE

KeysAsserted(value, signature) == DOMAIN value = OutputFields(signature)

\* the loop over the LM's outputs from output n on; the exception of parse
\* or of the assertion is re-raised and the values parsed so far are lost
RECURSIVE ParseFrom(_, _, _, _, _)
ParseFrom(signature, outputs, parse_values, n, values) ==
    IF n > Len(outputs)
    THEN [status |-> "returned", values |-> values, at |-> 0]
    ELSE LET parsed == Parse(signature, outputs[n], parse_values)
         IN IF ~parsed.ok \/ ~KeysAsserted(parsed.value, signature)
            THEN [status |-> "raised", values |-> <<>>, at |-> n]
            ELSE ParseFrom(signature, outputs, parse_values, n + 1,
                           Append(values, parsed.value))

Adapter__call__(signature, outputs, parse_values) ==
    ParseFrom(signature, outputs, parse_values, 1, <<>>)

\* the outputs the LM can return: a list of completions
LMOutputs ==
    UNION {{[n \in 1 .. k |-> [id |-> n, shape |-> shapes[n]]] :
               shapes \in [1 .. k -> CompletionShapes]} : k \in 0 .. MaxCompletions}

InitAdapter ==
    /\ NoCall
    /\ PlainObjects
    /\ conv_args = NoConversionArguments
    /\ adapter_args \in [signature : Signatures, outputs : LMOutputs,
                         parse_values : BOOLEAN]

\* A predictor calls the adapter; the LM returns adapter_args.outputs.
CallAdapter ==
    /\ adapter_out.status = "none"
    /\ adapter_out' = Adapter__call__(adapter_args.signature, adapter_args.outputs,
                                      adapter_args.parse_values)
    /\ UNCHANGED <<pc, callVars, teacherVars, roundVars, futures, traces, data,
                   result, raised, served, conv_args, conv, adapter_args,
                   adapter_failed, completed, original>>

NextAdapter == CallAdapter

SpecAdapter == InitAdapter /\ [][NextAdapter]_vars

\* ------------------------------------- records of both bootstrap functions
\* bootstrap_data and bootstrap_data_for_round on the plain configuration
\* the LM outputs on which the adapter call of a predictor raises
RaisingOutputs ==
    {c \in Signatures \X LMOutputs :
        Adapter__call__(c[1], c[2], TRUE).status = "raised"}

\* The adapter call inside the program's next predictor invocation raises
\* (a completion that cannot be parsed or whose key set differs): the
\* exception leaves the predictor and the program and reaches the except
\* clause of process_example.
AdapterRaises(i) ==
    /\ i \in Running
    /\ futures[i].calls < Len(Forward(dataset[i + 1]))
    /\ RaisingOutputs # {}
    /\ futures' = [futures EXCEPT ![i].state = "finished",
                                  ![i].value = TaskValue(TRUE, FALSE, TaskDataDict(i))]
    /\ raised' = raised \cup {i}
    /\ adapter_failed' = adapter_failed \cup {i}
    /\ UNCHANGED <<pc, callVars, teacherVars, roundVars, traces, data, result,
                   served, conv_args, conv, adapter_args, adapter_out, completed,
                   original>>

NextRecords ==
    \/ CallBootstrapData
    \/ CallBootstrapDataForRound
    \/ \E i \in Inds : StartTask(i)
    \/ \E i \in Inds : Invoke(i)
    \/ \E i \in Inds : AdapterRaises(i)
    \/ \E i \in Inds : ProgramRaises(i)
    \/ \E i \in Inds : FinishTask(i)
    \/ \E i \in Inds : Collect(i)
    \/ Propagate
    \/ ReturnData

SpecRecords == Init /\ [][NextRecords]_vars

TypeOK ==
    /\ pc \in {"idle", "pool", "shutdown", "returned", "raised"}
    /\ Len(dataset) <= MaxK
    /\ DOMAIN futures = Inds

\* ------------------------------------------------------------------ claims
ResultInds == {result[n].example_ind : n \in 1 .. Len(result)}

\* C1: whatever the dataset, the pool size and the order in which the tasks
\* complete, the returned list is strictly ascending by example_ind.
C1_ResultSortedByExampleInd ==
    pc = "returned" =>
        \A n \in 1 .. (Len(result) - 1) :
            result[n].example_ind < result[n + 1].example_ind

\* C1 witness: a call returned at least two records that were collected in
\* another order than the dataset's.
C1_Witness ==
    /\ pc = "returned"
    /\ Len(result) >= 2
    /\ data # result

\* C2: with F raising executions and max_errors >= F, the call returns K - F
\* records, none duplicated, whose example_inds are the positions 0..K-1
\* without the positions whose execution raised.
C2_ResultIsComplementOfFailures ==
    (pc = "returned" /\ Cardinality(raised) <= max_errors) =>
        /\ Len(result) = Len(dataset) - Cardinality(raised)
        /\ Cardinality(ResultInds) = Len(result)
        /\ ResultInds = Inds \ raised

\* C2 witness: a call over three examples returned after the execution of the
\* middle one raised, within the error budget.
C2_Witness ==
    /\ pc = "returned"
    /\ Len(dataset) = 3
    /\ raised = {1}
    /\ max_errors >= 1
    /\ ResultInds = {0, 2}

\* C3 (as claimed): a call in which more than max_errors executions raised
\* never returns a record list.
C3_NoResultWhenErrorsExceed ==
    pc = "returned" => Cardinality(raised) <= max_errors

\* the trace the execution of the example at position i must leave: one
\* observation per predictor invocation, in call order
OwnTrace(i) ==
    [n \in 1 .. Len(Forward(dataset[i + 1])) |->
        Observation(Forward(dataset[i + 1])[n], dataset[i + 1])]

\* C4: under any interleaving, the trace of every record (held by a future or
\* returned) is exactly the invocations of that record's own example, in call
\* order.
C4_TraceIsOwnInvocations ==
    /\ \A i \in Inds :
          (futures[i].state \in {"finished", "collected"}
             /\ futures[i].value.kind = "dict") =>
                traces[futures[i].value.dict.trace] = OwnTrace(i)
    /\ pc = "returned" =>
          \A n \in 1 .. Len(result) :
              traces[result[n].trace] = OwnTrace(result[n].example_ind)

\* C4 witness: a task has its record while an earlier-started task is still
\* in the middle of its program, one invocation made.
C4_Witness ==
    \E i, j \in Inds :
        /\ j < i
        /\ futures[i].state = "finished"
        /\ futures[i].value.kind = "dict"
        /\ futures[j].state = "running"
        /\ futures[j].calls = 1

\* the LM bound to the n-th predictor of a program in a heap
BoundLM(prog, h, n) == h[prog.preds[n].obj].lm

\* C5: prepare_teacher(student, None) returns (whenever the student passes the
\* LM consistency check) a teacher with the student's predictor names in the
\* student's order, none of whose predictor objects is a predictor object of
\* the student.
C5_DefaultTeacherIsIndependentCopy ==
    (pt.status # "none" /\ teacher = NoProgram) =>
        /\ LMConsistent(student, heap0, settings_lm) => pt.status = "returned"
        /\ pt.status = "returned" =>
              /\ PredictorNames(pt.teacher) = PredictorNames(student)
              /\ PredictorObjects(pt.teacher) \cap PredictorObjects(student) = {}

\* C5 witness: a call without a teacher returned one.
C5_Witness ==
    /\ teacher = NoProgram
    /\ pt.status = "returned"
    /\ Len(pt.teacher.preds) = 2

\* C6: a teacher whose shape differs from the student's makes prepare_teacher
\* fail at the structural check: the shared-predictor check, the LM
\* consistency check and the push of the default LM were not reached, and no
\* LM binding was written.
C6_ShapeMismatchFailsFirst ==
    (pt.status # "none" /\ teacher # NoProgram
       /\ ~StructurallyEquivalent(student, teacher)) =>
        /\ pt.status = "raised"
        /\ pt.log = <<"deepcopy", "structural_equivalency">>
        /\ \A o \in DOMAIN heap0 : heap[o].lm = heap0[o].lm
        /\ \A n \in 1 .. Len(pt.teacher.preds) :
              BoundLM(pt.teacher, heap, n) = BoundLM(teacher, heap0, n)

\* C6 witness: the rejected teacher also fails the LM consistency check and a
\* default LM is configured, so each later step would have shown.
C6_Witness ==
    /\ pt.status = "raised"
    /\ teacher # NoProgram
    /\ ~StructurallyEquivalent(student, teacher)
    /\ ~LMConsistent(teacher, heap0, settings_lm)
    /\ settings_lm # NoLM

\* C7: whether prepare_teacher returns or fails, every predictor object of the
\* caller keeps its demos and its LM binding, and a returned teacher is a new
\* program object over new predictor objects.
C7_CallerObjectsUntouched ==
    pt.status # "none" =>
        /\ \A o \in DOMAIN heap0 : heap[o] = heap0[o]
        /\ pt.status = "returned" =>
              /\ pt.teacher.id \notin {student.id, teacher.id}
              /\ PredictorObjects(pt.teacher) \cap DOMAIN heap0 = {}

\* C7 witness: a given teacher was accepted and the default LM was pushed over
\* a different binding of its copy.
C7_Witness ==
    /\ pt.status = "returned"
    /\ teacher # NoProgram
    /\ settings_lm # NoLM
    /\ \E n \in 1 .. Len(teacher.preds) :
          /\ BoundLM(teacher, heap0, n) # settings_lm
          /\ BoundLM(pt.teacher, heap, n) = settings_lm

\* C8: every predictor of a returned teacher has an LM bound, and it is the
\* default LM when one is configured.
C8_ReturnedTeacherFullyBound ==
    pt.status = "returned" =>
        \A n \in 1 .. Len(pt.teacher.preds) :
            /\ BoundLM(pt.teacher, heap, n) # NoLM
            /\ settings_lm # NoLM => BoundLM(pt.teacher, heap, n) = settings_lm

\* C8 witness: a teacher whose predictors had no LM was returned under a
\* default LM.
C8_Witness ==
    /\ pt.status = "returned"
    /\ settings_lm # NoLM
    /\ teacher # NoProgram
    /\ \A n \in 1 .. Len(teacher.preds) : BoundLM(teacher, heap0, n) = NoLM

\* the temperature bootstrap_data_for_round documents for the round: the
\* sampling_temperature, or the LM's own when that is None, plus
\* sampling_temperature_delta for every round
DocumentedTemperature(lm) ==
    (IF Len(sampling.temperature) = 0 THEN lm.temperature
     ELSE Head(sampling.temperature)) + sampling.round * sampling.delta

\* the temperature copy_model_with_updated_temp gives an LM in round r
TemperatureInRound(lm, r) ==
    copy_model_with_updated_temp(lm, [sampling EXCEPT !.round = r]).temperature

\* every LM the caller configures or binds
ConfiguredLMs == (GlobalLMs \cup BoundLMs) \ {NoLM}

\* C9: the LM copy of round r has temperature base + delta * r, base being
\* sampling_temperature or, when that is None, the temperature of the LM
\* copied; it changes by delta from one round to the next (so it is monotonic
\* in r); round 3 with base 0.9 and delta 0.001 gives 0.903 (thousandths).
C9_RoundTemperatureExact ==
    entry = "bootstrap_data_for_round" =>
        /\ settings_lm # NoLM =>
              /\ context_lm.model = settings_lm.model
              /\ context_lm.temperature = DocumentedTemperature(settings_lm)
        /\ settings_lm = NoLM =>
              \A n \in 1 .. Len(program.preds) :
                  (\A m \in 1 .. n : BoundLM(program_arg, heap0, m) # NoLM) =>
                      /\ BoundLM(program, heap, n).model =
                            BoundLM(program_arg, heap0, n).model
                      /\ BoundLM(program, heap, n).temperature =
                            DocumentedTemperature(BoundLM(program_arg, heap0, n))
        /\ \A lm \in ConfiguredLMs, r \in 0 .. (MaxRound - 1) :
              /\ TemperatureInRound(lm, r + 1) - TemperatureInRound(lm, r)
                    = sampling.delta
              /\ sampling.delta >= 0 =>
                    TemperatureInRound(lm, r) <= TemperatureInRound(lm, r + 1)
              /\ sampling.delta <= 0 =>
                    TemperatureInRound(lm, r) >= TemperatureInRound(lm, r + 1)
        /\ (settings_lm # NoLM /\ sampling.round = 3
              /\ sampling.temperature = Some(900) /\ sampling.delta = 1) =>
                 context_lm.temperature = 903

\* C9 witness: round 3 at sampling_temperature 0.9 and delta 0.001 under a
\* default LM, and an invocation was served at 0.903.
C9_Witness ==
    /\ entry = "bootstrap_data_for_round"
    /\ sampling = [round |-> 3, temperature |-> Some(900), delta |-> 1]
    /\ settings_lm # NoLM
    /\ \E s \in served : s.lm.temperature = 903

\* C10 (as claimed): in a round, every predictor invocation is served by an LM
\* at the round's temperature, whether it is the default LM or the
\* predictor's own that serves the caller's program.
C10_EveryInvocationAtRoundTemperature ==
    entry = "bootstrap_data_for_round" =>
        \A s \in served :
            s.lm.temperature =
                DocumentedTemperature(
                    ServingLM(program_arg, s.pred, heap0, settings_lm))

\* the keys every record has, and the two optional ones
RecordKeys == {"example", "prediction", "trace", "example_ind"}

\* C11: every returned record has example, prediction, trace and example_ind,
\* example_ind being the position of its example in the dataset; it has a
\* score exactly when a metric was supplied (the metric's score of it), and a
\* round exactly when bootstrap_data_for_round returned it, equal to
\* sampling_round on every record.
C11_RecordFields ==
    pc = "returned" =>
        \A n \in 1 .. Len(result) :
            LET r == result[n]
            IN /\ RecordKeys \subseteq DOMAIN r
               /\ DOMAIN r \subseteq RecordKeys \cup {"score", "round"}
               /\ r.example_ind \in Inds
               /\ r.example = dataset[r.example_ind + 1]
               /\ r.prediction = Prediction(r.example)
               /\ ("score" \in DOMAIN r) <=> metric
               /\ metric =>
                     r.score = Score(r.example, r.prediction, traces[r.trace])
               /\ ("round" \in DOMAIN r) <=> (entry = "bootstrap_data_for_round")
               /\ entry = "bootstrap_data_for_round" => r.round = sampling.round

\* C11 witness: a round call with a metric returned two records of a round
\* other than 0.
C11_Witness ==
    /\ pc = "returned"
    /\ entry = "bootstrap_data_for_round"
    /\ metric
    /\ sampling.round = 2
    /\ Len(result) = 2
    /\ \A n \in 1 .. 2 : result[n].round = 2 /\ result[n].score = 1

\* ------------------------------------------- trace to training messages
\* longest list of records converted, and longest trace of a record
MaxRecords == 2
MaxTraceLen == 3

\* Python values the converter distinguishes by type: a list and a str
PyList(items) == [type |-> "list", items |-> items]
PyStr(text) == [type |-> "str", text |-> text]

Message(role, content) == [role |-> role, content |-> content]

\* the user and assistant messages that render the demonstrations
RECURSIVE DemoMessages(_, _)
DemoMessages(signature, demos) ==
    IF demos = <<>> THEN <<>>
    ELSE <<Message("user", <<"demo_inputs", signature, Head(demos)>>),
           Message("assistant", <<"demo_outputs", signature, Head(demos)>>)>>
         \o DemoMessages(signature, Tail(demos))

\* adapter.format(signature, demos, inputs): a chat adapter renders a fresh
\* list of role-tagged messages, a prompt adapter a single textual prompt
Format(adapter, signature, demos, inputs) ==
    IF adapter = "chat"
    THEN PyList(<<Message("system", <<"signature", signature>>)>>
                \o DemoMessages(signature, demos)
                \o <<Message("user", <<"inputs", signature, inputs>>)>>)
    ELSE PyStr(<<signature, demos, inputs>>)

\* adapter.format_completion(signature, outputs)
FormatCompletion(adapter, signature, outputs) == <<"outputs", signature, outputs>>

\* adapter = dspy.settings.adapter or dspy.ChatAdapter()
AdapterInUse(settings_adapter) ==
    IF settings_adapter = None THEN "chat" ELSE settings_adapter

\* pred.signature of a traced predictor
Signature(pred) == <<"sig", pred>>

\* messages.append(message): defined on a list only
ListAppend(messages, message) ==
    IF messages.type = "list"
    THEN [ok |-> TRUE, value |-> PyList(Append(messages.items, message))]
    ELSE [ok |-> FALSE, value |-> messages]

\* {**data_dict, **prompt_completion_dict}: the right operand must be a
\* mapping; its keys win
DictMerge(data_dict, prompt_completion_dict) ==
    IF prompt_completion_dict.type = "dict"
    THEN [ok |-> TRUE,
          value |-> [type |-> "dict",
                     fields |-> [k \in DOMAIN prompt_completion_dict.fields \cup DOMAIN data_dict |->
                                    IF k \in DOMAIN prompt_completion_dict.fields
                                    THEN prompt_completion_dict.fields[k] ELSE data_dict[k]]]]
    ELSE [ok |-> FALSE, value |-> prompt_completion_dict]

\* the loop of build_messages_from_trace from trace entry n on; built is the
\* list built so far, demos the demonstrations each traced predictor holds
RECURSIVE BuildFrom(_, _, _, _, _, _)
BuildFrom(trace, n, exclude_demos, settings_adapter, demos, built) ==
    IF n > Len(trace)
    THEN [status |-> "returned", data |-> built]
    ELSE LET adapter == AdapterInUse(settings_adapter)
             pred == trace[n].pred
             ds == IF exclude_demos THEN <<>> ELSE demos[pred]
             messages == Format(adapter, Signature(pred), ds, trace[n].inputs)
             formatted_completion ==
                 FormatCompletion(adapter, Signature(pred), trace[n].outputs)
             appended == ListAppend(messages,
                                    Message("assistant", formatted_completion))
         IN IF ~appended.ok
            THEN [status |-> "raised", data |-> <<>>]
            ELSE BuildFrom(trace, n + 1, exclude_demos, settings_adapter, demos,
                           Append(built, appended.value))

build_messages_from_trace_keeps_demos(trace, exclude_demos, settings_adapter, demos) ==
    BuildFrom(trace, 1, FALSE, settings_adapter, demos, <<>>)

build_messages_from_trace(trace, exclude_demos, settings_adapter, demos) ==
    BuildFrom(trace, 1, exclude_demos, settings_adapter, demos, <<>>)

\* the inner loop of convert_to_module_level_message_data over the entries
\* built from one record's trace
RECURSIVE AppendEntries(_, _, _, _, _)
AppendEntries(data_dict, entries, n, keep_data_keys, prompt_completion_data) ==
    IF n > Len(entries)
    THEN [status |-> "returned", data |-> prompt_completion_data]
    ELSE LET merged == IF keep_data_keys
                       THEN DictMerge(data_dict, entries[n])
                       ELSE [ok |-> TRUE, value |-> entries[n]]
         IN IF ~merged.ok
            THEN [status |-> "raised", data |-> <<>>]
            ELSE AppendEntries(data_dict, entries, n + 1, keep_data_keys,
                               Append(prompt_completion_data, merged.value))

\* its outer loop from record r on
RECURSIVE ConvertFrom(_, _, _, _, _, _, _)
ConvertFrom(records, r, keep_data_keys, exclude_demos, settings_adapter, demos, prompt_completion_data) ==
    IF r > Len(records)
    THEN [status |-> "returned", data |-> prompt_completion_data]
    ELSE LET built == build_messages_from_trace(records[r].trace, exclude_demos,
                                                settings_adapter, demos)
             added == AppendEntries(records[r], built.data, 1, keep_data_keys,
                                    prompt_completion_data)
         IN IF built.status # "returned" \/ added.status # "returned"
            THEN [status |-> "raised", data |-> <<>>]
            ELSE ConvertFrom(records, r + 1, keep_data_keys, exclude_demos,
                             settings_adapter, demos, added.data)

convert_to_module_level_message_data_skips_first(records, keep_data_keys, exclude_demos, settings_adapter, demos) ==
    ConvertFrom(records, 2, keep_data_keys, exclude_demos, settings_adapter,
                demos, <<>>)

convert_to_module_level_message_data(records, keep_data_keys, exclude_demos, settings_adapter, demos) ==
    ConvertFrom(records, 1, keep_data_keys, exclude_demos, settings_adapter,
                demos, <<>>)

\* the predictors a trace can name and the demonstrations they hold
TracedPredictors == {"p1", "p2"}
TracedDemos == {[p1 |-> <<1>>, p2 |-> <<>>], [p1 |-> <<1, 2>>, p2 |-> <<3>>]}
\* dspy.settings.adapter: unset, a chat adapter, a prompt adapter
SettingsAdapters == {None, "chat", "prompt"}

\* a pipeline of k steps that alternates between the two predictors
Pipeline(first, k) ==
    [n \in 1 .. k |->
        IF n % 2 = 1 THEN first ELSE CHOOSE p \in TracedPredictors : p # first]

\* the predictor invocations an execution can consist of, in call order
PredictorCalls ==
    {Pipeline(first, k) : first \in TracedPredictors, k \in 0 .. MaxTraceLen}

\* the trace they leave: one observation per invocation
TraceOf(calls, example) ==
    [n \in 1 .. Len(calls) |-> Observation(calls[n], example)]

\* a bootstrapped record, its trace stored in the record
TracedRecord(n, trace) ==
    [example |-> Examples[n], example_ind |-> n - 1,
     prediction |-> Prediction(Examples[n]), trace |-> trace]

RecordLists ==
    UNION {{[n \in 1 .. k |-> TracedRecord(n, TraceOf(cs[n], Examples[n]))] :
               cs \in [1 .. k -> PredictorCalls]} : k \in 0 .. MaxRecords}

ConversionArguments ==
    [data : RecordLists, keep_data_keys : BOOLEAN, exclude_demos : BOOLEAN,
     adapter : SettingsAdapters, demos : TracedDemos]

InitConvert ==
    /\ NoCall
    /\ PlainObjects
    /\ conv_args \in ConversionArguments
    /\ adapter_args = NoAdapterArguments

\* The caller calls build_messages_from_trace on the first record's trace.
CallBuildMessagesFromTrace ==
    /\ conv.status = "none"
    /\ conv_args.data # <<>>
    /\ LET r == build_messages_from_trace(conv_args.data[1].trace,
                    conv_args.exclude_demos, conv_args.adapter, conv_args.demos)
       IN conv' = [fn |-> "build_messages_from_trace", status |-> r.status,
                   out |-> r.data, data |-> conv_args.data]
    /\ UNCHANGED <<pc, callVars, teacherVars, roundVars, futures, traces, data,
                   result, raised, served, conv_args, adapter_args, adapter_out,
                   adapter_failed, completed, original>>

\* The caller calls convert_to_module_level_message_data on the records.
CallConvertToModuleLevelMessageData ==
    /\ conv.status = "none"
    /\ LET r == convert_to_module_level_message_data(conv_args.data,
                    conv_args.keep_data_keys, conv_args.exclude_demos,
                    conv_args.adapter, conv_args.demos)
       IN conv' = [fn |-> "convert_to_module_level_message_data",
                   status |-> r.status, out |-> r.data, data |-> conv_args.data]
    /\ UNCHANGED <<pc, callVars, teacherVars, roundVars, futures, traces, data,
                   result, raised, served, conv_args, adapter_args, adapter_out,
                   adapter_failed, completed, original>>

NextConvert ==
    \/ CallBuildMessagesFromTrace
    \/ CallConvertToModuleLevelMessageData

SpecConvert == InitConvert /\ [][NextConvert]_vars

EntriesBefore(records, r) ==
    LET RECURSIVE Sum(_)
        Sum(n) == IF n = 0 THEN 0 ELSE Len(records[n].trace) + Sum(n - 1)
    IN Sum(r - 1)

\* C13: with keep_data_keys set convert_to_module_level_message_data
\* succeeds, and each output entry is the merge of the originating record's
\* fields with the entry built from that record's trace, the built entry's
\* fields winning on a collision.
C13_KeepDataKeysMerges ==
    (/\ conv.fn = "convert_to_module_level_message_data"
     /\ conv_args.keep_data_keys
     /\ AdapterInUse(conv_args.adapter) = "chat") =>
        /\ conv.status = "returned"
        /\ Len(conv.out) = EntriesBefore(conv_args.data, Len(conv_args.data) + 1)
        /\ \A r \in 1 .. Len(conv_args.data) :
              \A n \in 1 .. Len(conv_args.data[r].trace) :
                 LET e == conv.out[EntriesBefore(conv_args.data, r) + n]
                 IN /\ e.type = "dict"
                    /\ DOMAIN conv_args.data[r] \subseteq DOMAIN e.fields
                    /\ \A k \in DOMAIN conv_args.data[r] :
                          e.fields[k] = conv_args.data[r][k]

\* C14: Adapter.__call__ on N completions either returns exactly N parsed
\* values in completion order, each with exactly the signature's output
\* fields as keys, or raises at the first completion that cannot be parsed
\* or whose key set differs, and then returns nothing of what it parsed
\* before.
C14_AllParsedOrFirstFailureRaised ==
    adapter_out.status # "none" =>
        LET outputs == adapter_args.outputs
            bad == {n \in 1 .. Len(outputs) : outputs[n].shape # "exact"}
        IN IF bad = {}
           THEN /\ adapter_out.status = "returned"
                /\ Len(adapter_out.values) = Len(outputs)
                /\ \A n \in 1 .. Len(outputs) :
                      /\ DOMAIN adapter_out.values[n] =
                            OutputFields(adapter_args.signature)
                      /\ \A k \in DOMAIN adapter_out.values[n] :
                            adapter_out.values[n][k][1] = outputs[n].id
           ELSE /\ adapter_out.status = "raised"
                /\ adapter_out.values = <<>>
                /\ adapter_out.at \in bad
                /\ \A n \in bad : adapter_out.at <= n

C14_Witness ==
    /\ adapter_out.status = "raised"
    /\ Len(adapter_args.outputs) = 3
    /\ adapter_out.at = 3
    /\ adapter_args.outputs[3].shape = "extra"

\* the examples whose failure the caller has seen so far
FailedSoFar ==
    {i \in Inds : futures[i].state = "collected" /\ futures[i].value = ReturnedNone}

\* C15: the error threshold is checked as the run progresses: as soon as
\* the count of failed examples exceeds max_errors the operation is failing
\* (the caller has left the collection loop), so the caller waits only until
\* every task completed or the threshold was reached.
C15_ThresholdCheckedDuringRun ==
    (pc \in {"pool", "shutdown", "raised", "returned"}
     /\ Cardinality(FailedSoFar) > max_errors)
        => pc \in {"shutdown", "raised"}

\* ------------------------------------------------------- repeated rounds
\* most bootstrap_data_for_round calls the caller makes after the first
MaxCalls == 2

\* the caller runs a round on a one-example dataset
CallRoundOnOneExample == RoundCall({1}, BOOLEAN)

\* bootstrap_data_for_round returned or raised and the caller goes on: the
\* call's locals (the program copy, the dataset copy, the pool) are gone,
\* only the caller's own objects remain
CallerContinues ==
    /\ pc \in {"returned", "raised"}
    /\ entry = "bootstrap_data_for_round"
    /\ completed < MaxCalls
    /\ completed' = completed + 1
    /\ pc' = "idle"
    /\ entry' = None
    /\ dataset' = <<>>
    /\ metric' = FALSE
    /\ max_workers' = 0
    /\ max_errors' = 0
    /\ futures' = <<>>
    /\ traces' = (0 :> <<>>)
    /\ data' = <<>>
    /\ result' = <<>>
    /\ raised' = {}
    /\ served' = {}
    /\ program_arg' = StudentProgram
    /\ program' = StudentProgram
    /\ context_lm' = NoLM
    /\ sampling' = NoSampling
    /\ heap' = [o \in DOMAIN original.heap |-> heap[o]]
    /\ heap0' = heap'
    /\ UNCHANGED <<settings_lm, student, teacher, pt, conv_args, conv,
                   adapter_args, adapter_out, adapter_failed, original>>

NextRounds ==
    \/ CallRoundOnOneExample
    \/ \E i \in Inds : StartTask(i)
    \/ \E i \in Inds : Invoke(i)
    \/ \E i \in Inds : ProgramRaises(i)
    \/ \E i \in Inds : FinishTask(i)
    \/ \E i \in Inds : Collect(i)
    \/ Propagate
    \/ ReturnData
    \/ CallerContinues

SpecRounds == InitRound /\ [][NextRounds]_vars

\* the LM that serves a predictor of the caller's program in the current
\* round, computed from the caller's original configuration alone
EffectiveLM(pred) ==
    LET own == ServingLM(original.student, pred, original.heap, NoLM)
    IN IF original.settings_lm # NoLM
       THEN IF own # NoLM THEN own
            ELSE copy_model_with_updated_temp(original.settings_lm, sampling)
       ELSE copy_model_with_updated_temp(own, sampling)

\* C16: during and after any sequence of bootstrap_data_for_round calls,
\* returned or failed, the caller's program, its predictors' LM bindings and
\* temperatures, the caller's dataset and the process-wide default LM are
\* what they were before the first call; so the LM serving a round depends
\* only on the round's arguments and the original configuration and never
\* carries the perturbation of an earlier round.
C16_CallerStateSurvivesRounds ==
    /\ student = original.student
    /\ settings_lm = original.settings_lm
    /\ \A o \in DOMAIN original.heap : heap[o] = original.heap[o]
    /\ dataset = SubSeq(Examples, 1, Len(dataset))
    /\ entry = "bootstrap_data_for_round" =>
          \A s \in served : s.lm = EffectiveLM(s.pred)

C16_Witness ==
    /\ completed = 2
    /\ pc = "returned"
    /\ settings_lm = NoLM
    /\ sampling = [round |-> 1, temperature |-> Nothing, delta |-> 5]
    /\ \A s \in served : s.lm.temperature = 705
    /\ Cardinality(served) = 2

\* C17: an exception the Adapter raises inside a predictor call of one
\* example leaves that example's program execution and is a per-example
\* failure of the batch: the example counts as failed and has no record, and
\* every other example's record is there with its own prediction and its
\* full trace; none is coerced or defaulted.
C17_AdapterFailureIsPerExample ==
    pc = "returned" =>
        /\ \A i \in adapter_failed : i \in raised /\ i \notin ResultInds
        /\ Len(result) = Cardinality(Inds \ raised)
        /\ \A i \in Inds \ raised :
              \E n \in 1 .. Len(result) :
                 /\ result[n].example_ind = i
                 /\ result[n].prediction = Prediction(dataset[i + 1])
                 /\ traces[result[n].trace] = OwnTrace(i)

C17_Witness ==
    /\ pc = "returned"
    /\ Len(dataset) = 3
    /\ adapter_failed = {1}
    /\ raised = {1}
    /\ ResultInds = {0, 2}

\* the examples whose task is over
Done == {i \in Inds : futures[i].state \in {"finished", "collected"}}

\* C20: only an exception of the program execution makes a per-example
\* failure (a None result).  An exception of the metric is the result of its
\* task: when the caller collects it the call is failing, it ends with the
\* exception and with no records, whatever max_errors is, and a call that
\* returns has met no such exception.
C20_MetricExceptionFailsTheCall ==
    pc \in {"pool", "shutdown", "raised", "returned"} =>
        /\ \A i \in Done : futures[i].value = ReturnedNone <=> i \in raised
        /\ \A i \in Inds :
              (futures[i].state = "collected" /\ futures[i].value = Escaped) =>
                 /\ pc \in {"shutdown", "raised"}
                 /\ result = <<>>
        /\ pc = "returned" => \A i \in Inds : futures[i].value # Escaped

C20_Witness ==
    /\ pc = "raised"
    /\ entry = "process_dataset_threaded"
    /\ max_errors = 1
    /\ Len(dataset) = 3
    /\ raised = {}
    /\ futures[1].state = "collected" /\ futures[1].value = Escaped
    /\ futures[0].value.kind = "dict" /\ futures[2].value.kind = "dict"
    /\ result = <<>>

\* the program prepare_teacher clones: the teacher, or the student for None
TeacherSource == IF teacher = NoProgram THEN student ELSE teacher

\* the clone's LM state is mixed or partial: no default LM and a predictor
\* without an LM, or a default LM that some but not all predictors override
\* (the clone's bindings are those of the program cloned)
MixedLMState ==
    LET bound == {o \in PredictorObjects(TeacherSource) : heap0[o].lm # NoLM}
        unbound == PredictorObjects(TeacherSource) \ bound
    IN \/ settings_lm = NoLM /\ unbound # {}
       \/ settings_lm # NoLM /\ bound # {} /\ unbound # {}

\* the teacher the caller supplied holds a predictor instance of the student
SuppliedTeacherShares ==
    /\ teacher # NoProgram
    /\ PredictorObjects(teacher) \cap PredictorObjects(student) # {}

\* C18 (as claimed): prepare_teacher fails, returning no teacher, whenever
\* the cloned teacher is in a mixed or partial LM state, and also when a
\* predictor of the teacher is the same instance as a predictor of the
\* student.
C18_FailsOnMixedLMsOrSharedPredictor ==
    pt.status # "none" =>
        ((MixedLMState \/ SuppliedTeacherShares) => pt.status = "raised")

\* C18 (amended): prepare_teacher fails, returning no teacher, whenever the
\* cloned teacher is in a mixed or partial LM state.  The shared-predictor
\* check is applied to the clone, which never holds a predictor instance of
\* the student, so it is never the check that fails: a supplied teacher that
\* shares predictor instances with the student (the student itself
\* included) is accepted when it has the student's shape and a consistent
\* LM state.
C18_FailsOnMixedLMsCloneNeverShares ==
    pt.status # "none" =>
        /\ MixedLMState => pt.status = "raised"
        /\ NoSharedPredictor(student, pt.teacher)
        /\ pt.status = "raised" =>
              pt.log[Len(pt.log)] \in {"structural_equivalency", "lm_consistency"}
        /\ (SuppliedTeacherShares /\ ~MixedLMState
              /\ StructurallyEquivalent(student, teacher)) =>
                 pt.status = "returned"

C18_Witness ==
    /\ pt.status = "returned"
    /\ SuppliedTeacherShares
    /\ teacher # student
    /\ settings_lm # NoLM

\* the message sequences a record's trace gives
BuiltFrom(record) ==
    build_messages_from_trace(record.trace, conv_args.exclude_demos,
                              conv_args.adapter, conv_args.demos).data

====
